---- MODULE Spec2Model ----
(***************************************************************************)
(* The XMPP client core of Dialogo (src_backup/xmpp/client.rs): the        *)
(* command loop XmppClient::run with the handlers it calls, and the        *)
(* inbound dispatch task that XmppClient::connect spawns.                  *)
(*                                                                         *)
(* Strings that the code parses (JIDs) are sequences of one-character      *)
(* strings; other strings are TLA+ strings.  Stanza ids (fresh UUIDs) are  *)
(* left out of events and persistence calls.                               *)
(***************************************************************************)
EXTENDS Integers, Sequences, FiniteSets, TLC

(***************************************************************************)
(* Bounds of the model.                                                    *)
(***************************************************************************)
\* commands that may wait in the command channel (the code's capacity is 1000)
MaxQueue == 1
\* transports opened over one run of the client
MaxConns == 2

VARIABLES
    config,        \* XmppClientConfig: jid and resource, fixed at construction
    state,         \* the published XmppClientState snapshot (ArcSwap)
    client,        \* self.client: 0 for None, else the id of the transport held
    is_connected,  \* the shared Mutex<bool>
    conns,         \* per transport: is the stream open, what its inbound task does
    nconn,         \* transports opened so far; also the clock read by Utc::now()
    queue,         \* command_rx: the commands submitted and not yet received
    pc,            \* the command loop: "idle", "connecting" or "stopped"
    cur,           \* history: the command being executed, or the last one executed
    out,           \* history: the effects of cur, in program order
    lastIn,        \* history: the packet last dispatched by an inbound task
    inOut,         \* history: the effects of dispatching lastIn, in program order
    stored,        \* the roster_items table: the (user, contact) rows it holds
    handling       \* per transport: the stanza its task is suspended in, if any

vars == <<config, state, client, is_connected, conns, nconn, queue, pc, cur, out,
          lastIn, inOut, stored, handling>>

(***************************************************************************)
(* JIDs.  Jid::from_str splits at the first "/" and, in the part before    *)
(* it, at the first "@"; an empty domain, node or resource is an error.    *)
(***************************************************************************)
NoJid == [node |-> <<>>, domain |-> <<>>, resource |-> <<>>]

IndexOf(s, c) ==
    IF \E i \in 1..Len(s) : s[i] = c
    THEN CHOOSE i \in 1..Len(s) : s[i] = c /\ \A j \in 1..(i - 1) : s[j] # c
    ELSE 0

\* a faulty variant: the resource starts after the last "/"
JidFromStrLastSlash(s) ==
    LET i    == IF \E k \in 1..Len(s) : s[k] = "/"
                THEN CHOOSE k \in 1..Len(s) :
                        s[k] = "/" /\ \A m \in (k + 1)..Len(s) : s[m] # "/"
                ELSE 0
        bare == IF i = 0 THEN s ELSE SubSeq(s, 1, i - 1)
        res  == IF i = 0 THEN <<>> ELSE SubSeq(s, i + 1, Len(s))
        j    == IndexOf(bare, "@")
        node == IF j = 0 THEN <<>> ELSE SubSeq(bare, 1, j - 1)
        dom  == IF j = 0 THEN bare ELSE SubSeq(bare, j + 1, Len(bare))
    IN  IF \/ dom = <<>>
           \/ IndexOf(dom, "@") # 0
           \/ (i # 0 /\ res = <<>>)
           \/ (j # 0 /\ node = <<>>)
        THEN [ok |-> FALSE, jid |-> NoJid]
        ELSE [ok |-> TRUE, jid |-> [node |-> node, domain |-> dom, resource |-> res]]

JidFromStr(s) ==
    LET i    == IndexOf(s, "/")
        bare == IF i = 0 THEN s ELSE SubSeq(s, 1, i - 1)
        res  == IF i = 0 THEN <<>> ELSE SubSeq(s, i + 1, Len(s))
        j    == IndexOf(bare, "@")
        node == IF j = 0 THEN <<>> ELSE SubSeq(bare, 1, j - 1)
        dom  == IF j = 0 THEN bare ELSE SubSeq(bare, j + 1, Len(bare))
    IN  IF \/ dom = <<>>
           \/ IndexOf(dom, "@") # 0
           \/ (i # 0 /\ res = <<>>)
           \/ (j # 0 /\ node = <<>>)
        THEN [ok |-> FALSE, jid |-> NoJid]
        ELSE [ok |-> TRUE, jid |-> [node |-> node, domain |-> dom, resource |-> res]]

\* the text of a JID: [node "@"] domain ["/" resource]
JidString(j) ==
    (IF j.node = <<>> THEN <<>> ELSE j.node \o <<"@">>) \o j.domain
    \o (IF j.resource = <<>> THEN <<>> ELSE <<"/">> \o j.resource)

\* extract_bare_jid: format!("{}@{}", jid.node().unwrap_or(""), jid.domain())
extract_bare_jid(jid) == jid.node \o <<"@">> \o jid.domain

\* create_message_jid(jid, Some(res)) / create_message_jid(jid, None)
create_message_jid(jid, hasRes, res) ==
    JidFromStr(IF hasRes THEN jid \o <<"/">> \o res ELSE jid)

\* the client's own full JID, as every handler builds it
OwnJid == create_message_jid(config.jid, TRUE, config.resource)

(***************************************************************************)
(* Effects: events sent on the broadcast channel, persistence calls,       *)
(* stanzas written to a transport, snapshots published, tasks spawned.     *)
(***************************************************************************)
Ev(name, args)   == [k |-> "ev", name |-> name, args |-> args]
Db(name, args)   == [k |-> "db", name |-> name, args |-> args]
\* let _ = database.name(args).await: the call is made, its result discarded
Persist(database, name, args) ==
    [k |-> "db", name |-> name, args |-> args, ok |-> database = "up"]
Wire(name, args) == [k |-> "wire", name |-> name, args |-> args]
Pub(s)           == [k |-> "state", name |-> "update_state", args |-> s]
Spawn(c)         == [k |-> "spawn", name |-> "inbound", args |-> [conn |-> c]]
NoArgs == [none |-> TRUE]

\* the database a handler is given: its calls succeed, or they fail
Databases == {"up", "down"}

RECURSIVE OfKind(_, _)
OfKind(effs, k) ==
    IF effs = <<>> THEN <<>>
    ELSE (IF Head(effs).k = k THEN <<Head(effs)>> ELSE <<>>) \o OfKind(Tail(effs), k)

Events(effs) == OfKind(effs, "ev")
DbCalls(effs) == OfKind(effs, "db")
Writes(effs) == OfKind(effs, "wire")

(***************************************************************************)
(* XmppClientState and the three updates the code applies to it.           *)
(***************************************************************************)
NoTime == 0

DefaultState ==
    [connection_status |-> "Disconnected", authenticated |-> FALSE,
     roster |-> <<>>, connected_at |-> NoTime]

StateConnecting(s) == [s EXCEPT !.connection_status = "Connecting"]

StateConnected(s, now) ==
    [s EXCEPT !.connection_status = "Connected",
              !.authenticated = TRUE,
              !.connected_at = now]

\* a faulty variant: the snapshot stays authenticated
StateDisconnectedStillAuthenticated(s) ==
    [s EXCEPT !.connection_status = "Disconnected"]

StateDisconnected(s) ==
    [s EXCEPT !.connection_status = "Disconnected",
              !.authenticated = FALSE]

(***************************************************************************)
(* Commands.                                                               *)
(***************************************************************************)
JidA == [node |-> <<"a">>, domain |-> <<"h">>, resource |-> <<>>]

JidC == [node |-> <<"c">>, domain |-> <<"h">>, resource |-> <<"y">>]

Commands ==
    {[type |-> "Connect"], [type |-> "Disconnect"],
     [type |-> "SendMessage", to |-> JidA, body |-> "hi", chat_state |-> "None"],
     [type |-> "SendMessage", to |-> JidC, body |-> "", chat_state |-> "Composing"],
     [type |-> "SendFile", to |-> JidA, file_path |-> "f"],
     [type |-> "SendFile", to |-> JidC, file_path |-> ""]}

NoCommand == [type |-> "None"]

\* the inbound task of a transport is inside no handler
NotHandling == [kind |-> "none"]

\* a well-formed bare JID, and the empty one of XmppClientConfig::default()
ConfigJids == {<<"u", "@", "h">>, <<>>}

Init ==
    /\ config \in {[jid |-> j, resource |-> <<"r">>] : j \in ConfigJids}
    /\ state = DefaultState
    /\ client = 0
    /\ is_connected = FALSE
    /\ conns = [c \in 1..MaxConns |-> [open |-> FALSE, task |-> "none"]]
    /\ nconn = 0
    /\ queue = <<>>
    /\ pc = "idle"
    /\ cur = NoCommand
    /\ out = <<>>
    /\ lastIn = [conn |-> 0, packet |-> [kind |-> "none"]]
    /\ inOut = <<>>
    /\ stored = {}
    /\ handling = [c \in 1..MaxConns |-> NotHandling]

\* a caller sends a command on command_tx, which holds at most capacity of them
SubmitWithin(cmd, capacity) ==
    /\ pc \in {"idle", "connecting"}
    /\ Len(queue) < capacity
    /\ queue' = Append(queue, cmd)
    /\ UNCHANGED <<config, state, client, is_connected, conns, nconn, pc, cur, out,
                   lastIn, inOut, stored, handling>>

Submit(cmd) == SubmitWithin(cmd, MaxQueue)

\* a faulty variant: the loop is handed the newest command of the channel
RecvNewest(type) ==
    /\ pc = "idle"
    /\ queue # <<>>
    /\ queue[Len(queue)].type = type
    /\ queue' = SubSeq(queue, 1, Len(queue) - 1)
    /\ cur' = queue[Len(queue)]

\* command_rx.recv() hands the loop its next command
Recv(type) ==
    /\ pc = "idle"
    /\ queue # <<>>
    /\ Head(queue).type = type
    /\ queue' = Tail(queue)
    /\ cur' = Head(queue)

(***************************************************************************)
(* Connect.  XmppClient::connect runs in two steps of the command loop:    *)
(* up to the await of ClientBuilder::build, and from its result on.        *)
(***************************************************************************)
ConnectionError(why) == Ev("ConnectionError", [error |-> why])

\* a faulty variant: the task is spawned before the events are sent
ConnectedEffectsSpawnFirst(jid, s, c) ==
    <<Pub(s), Spawn(c), Ev("Connected", [jid |-> jid]),
      Ev("AuthenticationSuccess", NoArgs)>>

\* a faulty variant: Connected is sent before the snapshot is published
ConnectedEffectsEventFirst(jid, s, c) ==
    <<Ev("Connected", [jid |-> jid]), Pub(s), Ev("AuthenticationSuccess", NoArgs),
      Spawn(c)>>

\* what connect does once the transport is open and the presence is written
ConnectedEffects(jid, s, c) ==
    <<Pub(s), Ev("Connected", [jid |-> jid]), Ev("AuthenticationSuccess", NoArgs),
      Spawn(c)>>

ConnectBegin ==
    /\ Recv("Connect")
    /\ IF ~OwnJid.ok
       THEN /\ out' = <<ConnectionError("Invalid JID")>>
            /\ UNCHANGED <<state, pc>>
       ELSE /\ state' = StateConnecting(state)
            /\ out' = <<Pub(state'), Ev("Connecting", NoArgs)>>
            /\ pc' = "connecting"
    /\ UNCHANGED <<config, client, is_connected, conns, nconn, lastIn, inOut,
                   stored, handling>>

ConnectOutcomes == {"build_failed", "send_failed", "ok"}

ConnectFinish(outcome) ==
    /\ pc = "connecting"
    /\ pc' = "idle"
    /\ IF outcome = "ok"
       THEN /\ nconn < MaxConns
            /\ nconn' = nconn + 1
            /\ client' = nconn'
            /\ is_connected' = TRUE
            /\ state' = StateConnected(state, nconn')
            /\ conns' = [conns EXCEPT ![nconn'] = [open |-> TRUE, task |-> "running"]]
            /\ out' = out \o <<Wire("presence", [type |-> "available", conn |-> nconn'])>>
                          \o ConnectedEffects(OwnJid.jid, state', nconn')
       ELSE /\ out' = Append(out, ConnectionError(outcome))
            /\ UNCHANGED <<state, client, is_connected, conns, nconn>>
    /\ UNCHANGED <<config, queue, cur, lastIn, inOut,
                   stored, handling>>

(***************************************************************************)
(* Disconnect.                                                             *)
(***************************************************************************)
DisconnectedEvent == Ev("Disconnected", [reason |-> "User requested disconnect"])

Disconnect(sendOk, endOk) ==
    /\ Recv("Disconnect")
    /\ client = 0 => (sendOk /\ endOk)
    /\ (client # 0 /\ sendOk) => conns[client].open
    /\ client' = 0
    /\ is_connected' = FALSE
    /\ state' = StateDisconnected(state)
    /\ conns' = IF client # 0 /\ endOk
                THEN [conns EXCEPT ![client].open = FALSE]
                ELSE conns
    /\ out' = (IF client # 0 /\ sendOk
               THEN <<Wire("presence", [type |-> "unavailable", conn |-> client])>>
               ELSE <<>>)
              \o <<Pub(state'), DisconnectedEvent>>
    /\ UNCHANGED <<config, nconn, pc, lastIn, inOut,
                   stored, handling>>

(***************************************************************************)
(* SendMessage and SendFile.                                               *)
(***************************************************************************)
\* a faulty variant: the message is announced but not saved
SentEffectsNoSave(from, to, body, database) ==
    <<Ev("MessageSent", [to |-> to, body |-> body])>>

\* a faulty variant: a failed save ends send_message
SentEffectsSavedOrNothing(from, to, body, database) ==
    <<Persist(database, "save_message",
              [from |-> from, to |-> to, body |-> body, type |-> "chat"])>>
    \o (IF database = "up" THEN <<Ev("MessageSent", [to |-> to, body |-> body])>>
        ELSE <<>>)

\* what send_message does after its stanza was written to the transport
SentEffects(from, to, body, database) ==
    <<Persist(database, "save_message",
              [from |-> from, to |-> to, body |-> body, type |-> "chat"]),
      Ev("MessageSent", [to |-> to, body |-> body])>>

SendMessage(writeOk, database) ==
    /\ Recv("SendMessage")
    /\ (client = 0 \/ ~OwnJid.ok) => writeOk
    /\ (client # 0 /\ writeOk) => conns[client].open
    /\ IF ~OwnJid.ok \/ ~writeOk
       THEN /\ pc' = "stopped"
            /\ out' = <<>>
       ELSE /\ pc' = pc
            /\ out' = IF client = 0 THEN <<>>
                      ELSE <<Wire("message", [to |-> cur'.to, body |-> cur'.body,
                                               chat_state |-> cur'.chat_state,
                                               conn |-> client])>>
                           \o SentEffects(OwnJid.jid, cur'.to, cur'.body, database)
    /\ UNCHANGED <<config, state, client, is_connected, conns, nconn, lastIn, inOut,
                   stored, handling>>

NotImplemented == "File transfer not yet implemented"

\* a faulty variant: the refused transfer is recorded as a message
FileEffectsSaved(to, file_path) ==
    <<Db("save_message", [from |-> NoJid, to |-> to, body |-> file_path,
                          type |-> "chat"]),
      Ev("FileTransferError", [error |-> NotImplemented])>>

FileEffects(to, file_path) ==
    <<Ev("FileTransferError", [error |-> NotImplemented])>>

SendFile ==
    /\ Recv("SendFile")
    /\ out' = FileEffects(cur'.to, cur'.file_path)
    /\ UNCHANGED <<config, state, client, is_connected, conns, nconn, pc, lastIn, inOut,
                   stored, handling>>

(***************************************************************************)
(* Inbound packets.  An absent JID is NoJid, an absent show NoShow, an     *)
(* absent status NoStatus; a message carries the list of its bodies and    *)
(* the set of chat-state elements found in it.                             *)
(***************************************************************************)
JidB == [node |-> <<"b">>, domain |-> <<"h">>, resource |-> <<"x">>]
JidS == [node |-> <<>>, domain |-> <<"h">>, resource |-> <<>>]
JidU == [node |-> <<"u">>, domain |-> <<"h">>, resource |-> <<"r">>]

NoShow == "none"
NoStatus == "none"

\* roster items a result may carry, and the longest result modelled
MaxItems == 2

Item1 == [jid |-> JidA, name |-> "A", subscription |-> "both", groups |-> {"g"}]
Item2 == [jid |-> JidB, name |-> "none", subscription |-> "remove", groups |-> {}]
ItemPool == {Item1, Item2}

RECURSIVE SeqsUpTo(_, _)
SeqsUpTo(S, n) ==
    IF n = 0 THEN {<<>>}
    ELSE LET shorter == SeqsUpTo(S, n - 1)
         IN  shorter \cup {Append(q, x) : q \in shorter, x \in S}

NoPayload == [present |-> FALSE, roster |-> FALSE, items |-> <<>>]
OtherPayload == [present |-> TRUE, roster |-> FALSE, items |-> <<>>]
RosterPayload(items) == [present |-> TRUE, roster |-> TRUE, items |-> items]

HintSets ==
    {{}, {"composing"}, {"active"}, {"paused"}, {"inactive"}, {"gone"},
     {"composing", "active"}, {"paused", "gone"},
     {"composing", "active", "paused", "inactive", "gone"}}

BodyLists == {<<>>, <<"">>, <<"hi">>}

PresenceTypes ==
    {"Available", "Unavailable", "Subscribe", "Subscribed", "Unsubscribe",
     "Unsubscribed", "Error", "Probe"}

MessagePacket(from, to, bodies, hints) ==
    [kind |-> "message", from |-> from, to |-> to, bodies |-> bodies,
     hints |-> hints, type |-> "Chat"]

PresencePacket(from, type, show, status) ==
    [kind |-> "presence", from |-> from, type |-> type, show |-> show,
     status |-> status, priority |-> 0]

IqPacket(from, to, payload) ==
    [kind |-> "iq", from |-> from, to |-> to, payload |-> payload]

MessagePackets ==
    {MessagePacket(JidB, t, b, h) : t \in {NoJid, JidU}, b \in BodyLists, h \in HintSets}
    \cup {MessagePacket(NoJid, JidU, <<"hi">>, h) : h \in {{}, {"composing"}}}

PresencePackets ==
    {PresencePacket(JidB, t, sh, st) :
        t \in PresenceTypes, sh \in {NoShow, "away"}, st \in {NoStatus, "brb"}}
    \cup {PresencePacket(NoJid, t, NoShow, NoStatus) : t \in PresenceTypes}

IqPackets ==
    {IqPacket(f, t, pl) :
        f \in {NoJid, JidS}, t \in {NoJid, JidU},
        pl \in {NoPayload, OtherPayload}
               \cup {RosterPayload(q) : q \in SeqsUpTo(ItemPool, MaxItems)}}

Packets ==
    MessagePackets \cup PresencePackets \cup IqPackets
    \cup {[kind |-> "other"], [kind |-> "text"]}

(***************************************************************************)
(* The inbound handlers.  Each yields its effects in program order and     *)
(* whether it panicked (an unwrap of None).                                *)
(***************************************************************************)
Handled(effs) == [effects |-> effs, panic |-> FALSE]
Panicked(effs) == [effects |-> effs, panic |-> TRUE]

\* a faulty variant: active is tested before composing
ChatStateOfActiveFirst(hints) ==
    IF "active" \in hints THEN "Active"
    ELSE IF "composing" \in hints THEN "Composing"
    ELSE IF "paused" \in hints THEN "Paused"
    ELSE IF "inactive" \in hints THEN "Inactive"
    ELSE IF "gone" \in hints THEN "Gone"
    ELSE "None"

\* the chat-state branch of handle_message: first match wins
ChatStateOf(hints) ==
    IF "composing" \in hints THEN "Composing"
    ELSE IF "active" \in hints THEN "Active"
    ELSE IF "paused" \in hints THEN "Paused"
    ELSE IF "inactive" \in hints THEN "Inactive"
    ELSE IF "gone" \in hints THEN "Gone"
    ELSE "None"

\* a faulty variant: MessageReceived is sent whatever the body
handle_message_any_body(m, database) ==
    IF m.from = NoJid THEN Handled(<<>>)
    ELSE LET to   == IF m.to = NoJid THEN m.from ELSE m.to
             body == IF m.bodies = <<>> THEN "" ELSE Head(m.bodies)
             cs   == ChatStateOf(m.hints)
         IN  Handled(
               <<Persist(database, "save_message",
                         [from |-> m.from, to |-> to, body |-> body,
                          type |-> m.type])>>
               \o (IF cs # "None"
                   THEN <<Ev("ChatStateReceived", [from |-> m.from, state |-> cs])>>
                   ELSE <<>>)
               \o <<Ev("MessageReceived", [from |-> m.from, to |-> to,
                                           body |-> body])>>)

handle_message(m, database) ==
    IF m.from = NoJid THEN Handled(<<>>)
    ELSE LET to   == IF m.to = NoJid THEN m.from ELSE m.to
             body == IF m.bodies = <<>> THEN "" ELSE Head(m.bodies)
             cs   == ChatStateOf(m.hints)
         IN  Handled(
               <<Persist(database, "save_message",
                         [from |-> m.from, to |-> to, body |-> body,
                          type |-> m.type])>>
               \o (IF cs # "None"
                   THEN <<Ev("ChatStateReceived", [from |-> m.from, state |-> cs])>>
                   ELSE <<>>)
               \o (IF body # ""
                   THEN <<Ev("MessageReceived", [from |-> m.from, to |-> to,
                                                 body |-> body])>>
                   ELSE <<>>))

\* format!("{:?}", s) of a presence::Show, named here by its wire value
ShowDebug(show) ==
    CASE show = "away" -> "Away"
      [] show = "chat" -> "Chat"
      [] show = "dnd"  -> "Dnd"
      [] show = "xa"   -> "Xa"

\* presence.show.map(|s| format!("{:?}", s)).unwrap_or("online")
ShowString(show) == IF show = NoShow THEN "online" ELSE ShowDebug(show)

\* a faulty variant: a subscribe is also reported as a presence
handle_presence_subscribe_as_presence(p, database) ==
    IF p.from = NoJid THEN Handled(<<>>)
    ELSE LET show == ShowString(p.show)
             received == Ev("PresenceReceived", [from |-> p.from, show |-> show,
                                                 status |-> p.status,
                                                 priority |-> p.priority])
         IN  Handled(
               <<Persist(database, "update_presence",
                         [jid |-> p.from, show |-> show, status |-> p.status])>>
               \o (CASE p.type = "Subscribe" ->
                          <<Ev("SubscriptionRequest", [from |-> p.from]), received>>
                     [] p.type = "Subscribed" ->
                          <<Ev("SubscriptionApproved", [from |-> p.from])>>
                     [] p.type = "Unsubscribed" ->
                          <<Ev("SubscriptionDeclined", [from |-> p.from])>>
                     [] p.type \in {"Available", "Unavailable"} -> <<received>>
                     [] OTHER -> <<>>))

handle_presence(p, database) ==
    IF p.from = NoJid THEN Handled(<<>>)
    ELSE LET show == ShowString(p.show)
         IN  Handled(
               <<Persist(database, "update_presence",
                         [jid |-> p.from, show |-> show, status |-> p.status])>>
               \o (CASE p.type = "Subscribe" ->
                          <<Ev("SubscriptionRequest", [from |-> p.from])>>
                     [] p.type = "Subscribed" ->
                          <<Ev("SubscriptionApproved", [from |-> p.from])>>
                     [] p.type = "Unsubscribed" ->
                          <<Ev("SubscriptionDeclined", [from |-> p.from])>>
                     [] p.type \in {"Available", "Unavailable"} ->
                          <<Ev("PresenceReceived", [from |-> p.from, show |-> show,
                                                    status |-> p.status,
                                                    priority |-> p.priority])>>
                     [] OTHER -> <<>>))

RECURSIVE RosterCalls(_, _, _)
RosterCalls(user, items, database) ==
    IF items = <<>> THEN <<>>
    ELSE <<Persist(database, "add_roster_item",
                   [user |-> user, jid |-> Head(items).jid,
                    name |-> Head(items).name, groups |-> Head(items).groups])>>
         \o RosterCalls(user, Tail(items), database)

\* the RosterItem list of the RosterReceived event
RosterEventItems(items) ==
    [i \in 1..Len(items) |->
        [jid |-> items[i].jid, name |-> items[i].name,
         subscription |-> items[i].subscription, groups |-> items[i].groups,
         approved |-> FALSE, ask |-> "none"]]

handle_iq(iq, database) ==
    IF ~iq.payload.present THEN Panicked(<<>>)
    ELSE IF ~iq.payload.roster THEN Handled(<<>>)
    ELSE IF iq.to = NoJid THEN Panicked(<<>>)
    ELSE LET user == IF iq.from # NoJid THEN iq.from ELSE iq.to
         IN  Handled(RosterCalls(user, iq.payload.items, database)
                     \o <<Ev("RosterReceived",
                             [items |-> RosterEventItems(iq.payload.items)])>>)

handle_stanza(st, database) ==
    CASE st.kind = "message"  -> handle_message(st, database)
      [] st.kind = "presence" -> handle_presence(st, database)
      [] st.kind = "iq"       -> handle_iq(st, database)
      [] OTHER                -> Handled(<<>>)

(***************************************************************************)
(* The inbound task of transport c: the loop spawned by connect.           *)
(***************************************************************************)
ConnIds == 1..MaxConns

Running(c) == conns[c].task = "running"

\* the task is at events.next(), not inside a handler
Waiting(c) == Running(c) /\ handling[c] = NotHandling

\* what a packet does when it is dispatched: a text is skipped
Dispatch(p, database) ==
    IF p.kind = "text" THEN Handled(<<>>) ELSE handle_stanza(p, database)

\* the rows of roster_items after the add_roster_item calls among the effects
StoredAfter(rows, effs) ==
    rows \cup {[user |-> effs[i].args.user, jid |-> effs[i].args.jid] :
                  i \in {j \in 1..Len(effs) :
                            /\ effs[j].k = "db"
                            /\ effs[j].name = "add_roster_item"
                            /\ effs[j].ok}}

\* events.next() yields a packet, which is handled to its end
Deliver(c, p, database) ==
    /\ Waiting(c)
    /\ conns[c].open
    /\ LET r == Dispatch(p, database)
       IN  /\ inOut' = r.effects
           /\ stored' = StoredAfter(stored, r.effects)
           /\ conns' = IF r.panic THEN [conns EXCEPT ![c].task = "panicked"] ELSE conns
    /\ lastIn' = [conn |-> c, packet |-> p]
    /\ UNCHANGED <<config, state, client, is_connected, nconn, queue, pc, cur, out,
                   handling>>

\* events.next() yields Err(e)
StreamError(c) ==
    /\ Waiting(c)
    /\ conns[c].open
    /\ lastIn' = [conn |-> c, packet |-> [kind |-> "error"]]
    /\ inOut' = <<Ev("Error", [error |-> "Stream error", stanza |-> "none"])>>
    /\ UNCHANGED <<config, state, client, is_connected, conns, nconn, queue, pc, cur,
                   out, stored, handling>>

\* a faulty variant: the task exits without clearing the connected flag
TaskEndKeepsFlag(c) ==
    /\ Waiting(c)
    /\ conns' = [conns EXCEPT ![c] = [open |-> FALSE, task |-> "ended"]]
    /\ lastIn' = [conn |-> c, packet |-> [kind |-> "end"]]
    /\ inOut' = <<>>
    /\ UNCHANGED <<config, state, client, is_connected, nconn, queue, pc, cur, out,
                   stored, handling>>

\* a faulty variant: with auto_reconnect set the exiting task asks for a Connect
TaskEndReconnects(c) ==
    /\ Waiting(c)
    /\ is_connected' = FALSE
    /\ conns' = [conns EXCEPT ![c] = [open |-> FALSE, task |-> "ended"]]
    /\ lastIn' = [conn |-> c, packet |-> [kind |-> "end"]]
    /\ inOut' = <<>>
    /\ queue' = IF config.auto_reconnect
                THEN Append(queue, [type |-> "Connect"])
                ELSE queue
    /\ UNCHANGED <<config, state, client, nconn, pc, cur, out, stored, handling>>

\* events.next() yields None: the stream is over, closed by either side
TaskEnd(c) ==
    /\ Waiting(c)
    /\ is_connected' = FALSE
    /\ conns' = [conns EXCEPT ![c] = [open |-> FALSE, task |-> "ended"]]
    /\ lastIn' = [conn |-> c, packet |-> [kind |-> "end"]]
    /\ inOut' = <<>>
    /\ UNCHANGED <<config, state, client, nconn, queue, pc, cur, out, stored,
                   handling>>

\* packets the server sends while callers use every command
SomePackets ==
    {MessagePacket(JidB, JidU, <<"hi">>, {}), [kind |-> "text"]}

Next ==
    \/ \E cmd \in Commands : Submit(cmd)
    \/ ConnectBegin
    \/ \E o \in ConnectOutcomes : ConnectFinish(o)
    \/ \E sendOk, endOk \in BOOLEAN : Disconnect(sendOk, endOk)
    \/ \E writeOk \in BOOLEAN, database \in Databases : SendMessage(writeOk, database)
    \/ SendFile
    \/ \E c \in ConnIds, p \in SomePackets, database \in Databases :
          Deliver(c, p, database)
    \/ \E c \in ConnIds : StreamError(c)
    \/ \E c \in ConnIds : TaskEnd(c)

Spec == Init /\ [][Next]_vars

(***************************************************************************)
(* The inbound task alone: the client right after its first successful     *)
(* Connect, no further command submitted, the server sending every packet  *)
(* of Packets.                                                             *)
(***************************************************************************)
ValidJid == <<"u", "@", "h">>

InitInbound ==
    /\ config = [jid |-> ValidJid, resource |-> <<"r">>]
    /\ state = StateConnected(StateConnecting(DefaultState), 1)
    /\ client = 1
    /\ is_connected = TRUE
    /\ conns = [c \in 1..MaxConns |->
                   IF c = 1 THEN [open |-> TRUE, task |-> "running"]
                   ELSE [open |-> FALSE, task |-> "none"]]
    /\ nconn = 1
    /\ queue = <<>>
    /\ pc = "idle"
    /\ cur = [type |-> "Connect"]
    /\ out = <<Pub(StateConnecting(DefaultState)), Ev("Connecting", NoArgs),
               Wire("presence", [type |-> "available", conn |-> 1])>>
             \o ConnectedEffects(OwnJid.jid, state, 1)
    /\ lastIn = [conn |-> 0, packet |-> [kind |-> "none"]]
    /\ inOut = <<>>
    /\ stored = {}
    /\ handling = [c \in 1..MaxConns |-> NotHandling]

NextInbound ==
    \/ \E c \in ConnIds, p \in Packets, database \in Databases :
          Deliver(c, p, database)
    \/ \E c \in ConnIds : StreamError(c)
    \/ \E c \in ConnIds : TaskEnd(c)

SpecInbound == InitInbound /\ [][NextInbound]_vars

\* InitInbound is a reachable state of Spec, so this is no invariant of Spec
NotInitInbound == ~InitInbound

(***************************************************************************)
(* The connected client exchanging messages, presences and IQs while the   *)
(* database may fail: the inbound task handling stanzas that are           *)
(* persisted, and callers submitting SendMessage.                          *)
(***************************************************************************)
PersistPackets ==
    {MessagePacket(JidB, JidU, <<"hi">>, {"composing"}),
     MessagePacket(JidB, NoJid, <<"">>, {"paused"}),
     IqPacket(JidS, JidU, RosterPayload(<<Item1, Item2>>))}
    \cup {PresencePacket(JidB, t, "away", "brb") : t \in PresenceTypes}

NextPersist ==
    \/ \E c \in ConnIds, p \in PersistPackets, database \in Databases :
          Deliver(c, p, database)
    \/ \E c \in ConnIds : TaskEnd(c)
    \/ \E cmd \in {c \in Commands : c.type = "SendMessage"} : Submit(cmd)
    \/ \E writeOk \in BOOLEAN, database \in Databases : SendMessage(writeOk, database)

SpecPersist == InitInbound /\ [][NextPersist]_vars

(***************************************************************************)
(* The other commands.  Each handler but send_presence first builds the    *)
(* client's own JID, an error ending run(); with a handle held it writes   *)
(* its stanza, an error ending run() too, and then reports or records      *)
(* what it did; without a handle it does nothing.                          *)
(***************************************************************************)
JidR == [node |-> <<"m">>, domain |-> <<"h">>, resource |-> <<>>]

MoreCommands ==
    {[type |-> "SendPresence", show |-> "away", status |-> "brb"],
     [type |-> "GetRoster"],
     [type |-> "AddRosterItem", jid |-> JidA, name |-> "A", groups |-> {"g"}],
     [type |-> "RemoveRosterItem", jid |-> JidA],
     [type |-> "ApproveSubscription", jid |-> JidA],
     [type |-> "DeclineSubscription", jid |-> JidA],
     [type |-> "JoinMuc", room_jid |-> JidR, nickname |-> <<"n">>],
     [type |-> "JoinMuc", room_jid |-> JidR, nickname |-> <<>>],
     [type |-> "LeaveMuc", room_jid |-> JidR],
     [type |-> "SendMucMessage", room_jid |-> JidR, body |-> "hi"]}

AllCommands == Commands \cup MoreCommands

\* a faulty variant: a failed write is dropped and the loop goes on
ExecuteGoesOn(type, needsJid, writeOk, effects) ==
    /\ Recv(type)
    /\ (client = 0 \/ (needsJid /\ ~OwnJid.ok)) => writeOk
    /\ (client # 0 /\ writeOk) => conns[client].open
    /\ IF needsJid /\ ~OwnJid.ok
       THEN /\ pc' = "stopped"
            /\ out' = <<>>
       ELSE /\ pc' = pc
            /\ out' = IF client = 0 \/ ~writeOk THEN <<>> ELSE effects
    /\ UNCHANGED <<config, state, client, is_connected, conns, nconn, lastIn, inOut,
                   handling>>

\* the frame of these handlers: effects is what follows a successful write
Execute(type, needsJid, writeOk, effects) ==
    /\ Recv(type)
    /\ (client = 0 \/ (needsJid /\ ~OwnJid.ok)) => writeOk
    /\ (client # 0 /\ writeOk) => conns[client].open
    /\ IF (needsJid /\ ~OwnJid.ok) \/ ~writeOk
       THEN /\ pc' = "stopped"
            /\ out' = <<>>
       ELSE /\ pc' = pc
            /\ out' = IF client = 0 THEN <<>> ELSE effects
    /\ UNCHANGED <<config, state, client, is_connected, conns, nconn, lastIn, inOut,
                   handling>>

SendPresence(writeOk) ==
    /\ Execute("SendPresence", FALSE, writeOk,
               <<Wire("presence", [type |-> "available", show |-> cur'.show,
                                   status |-> cur'.status, conn |-> client]),
                 Ev("PresenceSent", [show |-> ShowDebug(cur'.show),
                                     status |-> cur'.status])>>)
    /\ UNCHANGED stored

GetRoster(writeOk) ==
    /\ Execute("GetRoster", TRUE, writeOk,
               <<Wire("iq", [type |-> "get", payload |-> "roster", conn |-> client])>>)
    /\ UNCHANGED stored

\* the bare user JID built for the database call parses whenever OwnJid does
AddRosterItem(writeOk, database) ==
    /\ Execute("AddRosterItem", TRUE, writeOk,
               <<Wire("iq", [type |-> "set", payload |-> "roster", jid |-> cur'.jid,
                             subscription |-> "none", conn |-> client]),
                 Persist(database, "add_roster_item",
                         [user |-> create_message_jid(config.jid, FALSE, <<>>).jid,
                          jid |-> cur'.jid, name |-> cur'.name,
                          groups |-> cur'.groups])>>)
    /\ stored' = StoredAfter(stored, out')

RemoveRosterItem(writeOk) ==
    /\ Execute("RemoveRosterItem", TRUE, writeOk,
               <<Wire("iq", [type |-> "set", payload |-> "roster", jid |-> cur'.jid,
                             subscription |-> "remove", conn |-> client])>>)
    /\ UNCHANGED stored

ApproveSubscription(writeOk) ==
    /\ Execute("ApproveSubscription", TRUE, writeOk,
               <<Wire("presence", [type |-> "subscribed", to |-> cur'.jid,
                                   conn |-> client]),
                 Ev("SubscriptionApproved", [jid |-> cur'.jid])>>)
    /\ UNCHANGED stored

DeclineSubscription(writeOk) ==
    /\ Execute("DeclineSubscription", TRUE, writeOk,
               <<Wire("presence", [type |-> "unsubscribed", to |-> cur'.jid,
                                   conn |-> client]),
                 Ev("SubscriptionDeclined", [jid |-> cur'.jid])>>)
    /\ UNCHANGED stored

\* join_muc parses room_jid "/" nickname and unwraps the result: a panic of
\* the command loop when that is no JID
JoinMuc(writeOk) ==
    IF /\ pc = "idle" /\ queue # <<>> /\ Head(queue).type = "JoinMuc"
       /\ OwnJid.ok
       /\ ~JidFromStr(JidString(Head(queue).room_jid) \o <<"/">>
                      \o Head(queue).nickname).ok
    THEN /\ Recv("JoinMuc")
         /\ writeOk
         /\ pc' = "panicked"
         /\ out' = <<>>
         /\ UNCHANGED <<config, state, client, is_connected, conns, nconn, lastIn,
                        inOut, stored, handling>>
    ELSE /\ Execute("JoinMuc", TRUE, writeOk,
                    <<Wire("presence", [type |-> "available", to |-> cur'.room_jid,
                                        nickname |-> cur'.nickname, conn |-> client]),
                      Ev("MucJoined", [room_jid |-> cur'.room_jid,
                                       nickname |-> cur'.nickname])>>)
         /\ UNCHANGED stored

LeaveMuc(writeOk) ==
    /\ Execute("LeaveMuc", TRUE, writeOk,
               <<Wire("presence", [type |-> "unavailable", to |-> cur'.room_jid,
                                   conn |-> client]),
                 Ev("MucLeft", [room_jid |-> cur'.room_jid])>>)
    /\ UNCHANGED stored

SendMucMessage(writeOk) ==
    /\ Execute("SendMucMessage", TRUE, writeOk,
               <<Wire("message", [type |-> "groupchat", to |-> cur'.room_jid,
                                  body |-> cur'.body, conn |-> client]),
                 Ev("MucMessageReceived",
                    [room_jid |-> cur'.room_jid, from |-> OwnJid.jid,
                     nickname |-> "me", body |-> cur'.body])>>)
    /\ UNCHANGED stored

NextCommands ==
    \/ \E cmd \in AllCommands : Submit(cmd)
    \/ ConnectBegin
    \/ \E o \in ConnectOutcomes : ConnectFinish(o)
    \/ \E sendOk, endOk \in BOOLEAN : Disconnect(sendOk, endOk)
    \/ \E writeOk \in BOOLEAN, database \in Databases : SendMessage(writeOk, database)
    \/ SendFile
    \/ \E writeOk \in BOOLEAN : SendPresence(writeOk)
    \/ \E writeOk \in BOOLEAN : GetRoster(writeOk)
    \/ \E writeOk \in BOOLEAN, database \in Databases :
          AddRosterItem(writeOk, database)
    \/ \E writeOk \in BOOLEAN : RemoveRosterItem(writeOk)
    \/ \E writeOk \in BOOLEAN : ApproveSubscription(writeOk)
    \/ \E writeOk \in BOOLEAN : DeclineSubscription(writeOk)
    \/ \E writeOk \in BOOLEAN : JoinMuc(writeOk)
    \/ \E writeOk \in BOOLEAN : LeaveMuc(writeOk)
    \/ \E writeOk \in BOOLEAN : SendMucMessage(writeOk)

SpecCommands == Init /\ [][NextCommands]_vars

(***************************************************************************)
(* The command loop alone, fed Connect, Disconnect and SendMessage by      *)
(* callers that may have one command more waiting than elsewhere.          *)
(***************************************************************************)
FifoCommands ==
    {[type |-> "Connect"], [type |-> "Disconnect"],
     [type |-> "SendMessage", to |-> JidA, body |-> "hi", chat_state |-> "None"]}

NextFifo ==
    \/ \E cmd \in FifoCommands : SubmitWithin(cmd, MaxQueue + 1)
    \/ ConnectBegin
    \/ \E o \in ConnectOutcomes : ConnectFinish(o)
    \/ \E sendOk, endOk \in BOOLEAN : Disconnect(sendOk, endOk)
    \/ \E writeOk \in BOOLEAN, database \in Databases : SendMessage(writeOk, database)

SpecFifo == Init /\ [][NextFifo]_vars

(***************************************************************************)
(* The inbound tasks seen at their await points.  A handler that makes a   *)
(* persistence call is suspended in it and resumed later, and another task *)
(* may run in between; a handler that makes none, or panics before its     *)
(* first call, runs in one step.  Callers submit Connect and Disconnect,   *)
(* one command at a time, and the database works.                          *)
(* A suspended handler is resumed, and a task whose stream was closed is   *)
(* handed the end of the stream: the runtime schedules every ready task.   *)
(***************************************************************************)
Awaits(p, database) ==
    LET r == Dispatch(p, database)
    IN  ~r.panic /\ DbCalls(r.effects) # <<>>

\* events.next() yields a stanza whose handler reaches a persistence call
Begin(c, p, database) ==
    /\ Waiting(c)
    /\ conns[c].open
    /\ Awaits(p, database)
    /\ handling' = [handling EXCEPT
                       ![c] = [kind |-> "stanza", packet |-> p, database |-> database]]
    /\ UNCHANGED <<config, state, client, is_connected, conns, nconn, queue, pc, cur,
                   out, lastIn, inOut, stored>>

\* the handler is resumed and runs to its end
Complete(c) ==
    /\ Running(c)
    /\ handling[c] # NotHandling
    /\ LET r == Dispatch(handling[c].packet, handling[c].database)
       IN  /\ inOut' = r.effects
           /\ stored' = StoredAfter(stored, r.effects)
    /\ lastIn' = [conn |-> c, packet |-> handling[c].packet]
    /\ handling' = [handling EXCEPT ![c] = NotHandling]
    /\ UNCHANGED <<config, state, client, is_connected, conns, nconn, queue, pc, cur,
                   out>>

\* the task of a closed stream gets None from events.next()
ObserveClose(c) == ~conns[c].open /\ TaskEnd(c)

TaskCommands == {[type |-> "Connect"], [type |-> "Disconnect"]}

\* a message that is saved, and an IQ without a payload
TaskPackets ==
    {MessagePacket(JidB, JidU, <<"hi">>, {}), IqPacket(JidS, JidU, NoPayload)}

NextTasks ==
    \/ \E cmd \in TaskCommands : SubmitWithin(cmd, 1)
    \/ ConnectBegin
    \/ \E o \in ConnectOutcomes : ConnectFinish(o)
    \/ \E sendOk, endOk \in BOOLEAN : Disconnect(sendOk, endOk)
    \/ \E c \in ConnIds, p \in TaskPackets : Begin(c, p, "up")
    \/ \E c \in ConnIds : Complete(c)
    \/ \E c \in ConnIds, p \in TaskPackets :
          ~Awaits(p, "up") /\ Deliver(c, p, "up")
    \/ \E c \in ConnIds : TaskEnd(c)

SpecTasks ==
    /\ Init
    /\ [][NextTasks]_vars
    /\ \A c \in ConnIds : WF_vars(Complete(c)) /\ WF_vars(ObserveClose(c))

(***************************************************************************)
(* The command loop fed Connect and the stanza commands by callers that    *)
(* may have one command more waiting than elsewhere, so that commands are  *)
(* still queued when a handler fails.                                      *)
(***************************************************************************)
StopCommands ==
    {[type |-> "Connect"],
     [type |-> "SendMessage", to |-> JidA, body |-> "hi", chat_state |-> "None"]}
    \cup MoreCommands

NextStop ==
    \/ \E cmd \in StopCommands : SubmitWithin(cmd, MaxQueue + 1)
    \/ ConnectBegin
    \/ \E o \in ConnectOutcomes : ConnectFinish(o)
    \/ \E writeOk \in BOOLEAN : SendMessage(writeOk, "up")
    \/ \E writeOk \in BOOLEAN : SendPresence(writeOk)
    \/ \E writeOk \in BOOLEAN : GetRoster(writeOk)
    \/ \E writeOk \in BOOLEAN : AddRosterItem(writeOk, "up")
    \/ \E writeOk \in BOOLEAN : RemoveRosterItem(writeOk)
    \/ \E writeOk \in BOOLEAN : ApproveSubscription(writeOk)
    \/ \E writeOk \in BOOLEAN : DeclineSubscription(writeOk)
    \/ \E writeOk \in BOOLEAN : JoinMuc(writeOk)
    \/ \E writeOk \in BOOLEAN : LeaveMuc(writeOk)
    \/ \E writeOk \in BOOLEAN : SendMucMessage(writeOk)

SpecStop == Init /\ [][NextStop]_vars

(***************************************************************************)
(* The client configured with or without auto_reconnect, connecting and    *)
(* disconnecting while the server sends packets and ends streams.          *)
(***************************************************************************)
InitReconnect ==
    /\ config \in {[jid |-> j, resource |-> <<"r">>, auto_reconnect |-> b] :
                      j \in ConfigJids, b \in BOOLEAN}
    /\ state = DefaultState
    /\ client = 0
    /\ is_connected = FALSE
    /\ conns = [c \in 1..MaxConns |-> [open |-> FALSE, task |-> "none"]]
    /\ nconn = 0
    /\ queue = <<>>
    /\ pc = "idle"
    /\ cur = NoCommand
    /\ out = <<>>
    /\ lastIn = [conn |-> 0, packet |-> [kind |-> "none"]]
    /\ inOut = <<>>
    /\ stored = {}
    /\ handling = [c \in 1..MaxConns |-> NotHandling]

ReconnectCommands == {[type |-> "Connect"], [type |-> "Disconnect"]}

NextReconnect ==
    \/ \E cmd \in ReconnectCommands : Submit(cmd)
    \/ ConnectBegin
    \/ \E o \in ConnectOutcomes : ConnectFinish(o)
    \/ \E sendOk, endOk \in BOOLEAN : Disconnect(sendOk, endOk)
    \/ \E c \in ConnIds, p \in SomePackets : Deliver(c, p, "up")
    \/ \E c \in ConnIds : StreamError(c)
    \/ \E c \in ConnIds : TaskEnd(c)

SpecReconnect == InitReconnect /\ [][NextReconnect]_vars

(***************************************************************************)
(* The JID helpers alone: a client configured with any jid and resource    *)
(* text up to a length builds a JID from them, with the resource or        *)
(* without, and extracts the bare JID of the result.                       *)
(***************************************************************************)
\* longest configured jid; the resource is one character shorter
MaxLen == 3

JidChars == {"a", "b", "@", "/"}

BuildJid(hasRes) ==
    /\ cur = NoCommand
    /\ LET r == create_message_jid(config.jid, hasRes, config.resource)
       IN  out' = <<[k |-> "jid", ok |-> r.ok, jid |-> r.jid,
                     bare |-> extract_bare_jid(r.jid)]>>
    /\ cur' = [type |-> "BuildJid", hasRes |-> hasRes]
    /\ UNCHANGED <<config, state, client, is_connected, conns, nconn, queue, pc,
                   lastIn, inOut, stored, handling>>

InitJid ==
    /\ config \in {[jid |-> j, resource |-> r] :
                      j \in SeqsUpTo(JidChars, MaxLen),
                      r \in SeqsUpTo(JidChars, MaxLen - 1)}
    /\ state = DefaultState
    /\ client = 0
    /\ is_connected = FALSE
    /\ conns = [c \in 1..MaxConns |-> [open |-> FALSE, task |-> "none"]]
    /\ nconn = 0
    /\ queue = <<>>
    /\ pc = "idle"
    /\ cur = NoCommand
    /\ out = <<>>
    /\ lastIn = [conn |-> 0, packet |-> [kind |-> "none"]]
    /\ inOut = <<>>
    /\ stored = {}
    /\ handling = [c \in 1..MaxConns |-> NotHandling]

NextJid == \E hasRes \in BOOLEAN : BuildJid(hasRes)

SpecJid == InitJid /\ [][NextJid]_vars

(***************************************************************************)
(* Vocabulary of the properties.                                           *)
(***************************************************************************)
\* the command loop has finished executing a command of this type
Executed(type) == cur.type = type /\ pc # "connecting"

\* the last Connect wrote the initial presence: no step of it failed
ConnectSucceeded == Executed("Connect") /\ Writes(out) # <<>>
ConnectFailed == Executed("Connect") /\ Writes(out) = <<>>

EventNames(effs) == [i \in 1..Len(Events(effs)) |-> Events(effs)[i].name]

Count(effs, k, name) ==
    Cardinality({i \in 1..Len(effs) : effs[i].k = k /\ effs[i].name = name})

\* position of the first effect of that kind and name, 0 if there is none
First(effs, k, name) ==
    IF Count(effs, k, name) = 0 THEN 0
    ELSE CHOOSE i \in 1..Len(effs) :
            /\ effs[i].k = k /\ effs[i].name = name
            /\ \A j \in 1..(i - 1) : ~(effs[j].k = k /\ effs[j].name = name)

NoPacketYet == lastIn.packet.kind = "none"

\* this step is the command loop taking a command of this type from the channel
Takes(type) ==
    /\ pc = "idle"
    /\ queue # <<>>
    /\ Head(queue).type = type
    /\ queue' = Tail(queue)

(***************************************************************************)
(* C1 - every published snapshot with authenticated = true has             *)
(* connection_status = Connected.                                          *)
(***************************************************************************)
C1_AuthenticatedImpliesConnected ==
    state.authenticated => state.connection_status = "Connected"

(***************************************************************************)
(* C2 - a Connect followed directly by a Disconnect, no packet dispatched, *)
(* leaves the snapshot Disconnected, not authenticated, connected_at None. *)
(***************************************************************************)
C2_ConnectThenDisconnect ==
    [][(Executed("Connect") /\ NoPacketYet /\ Takes("Disconnect"))
       => /\ state'.connection_status = "Disconnected"
          /\ state'.authenticated = FALSE
          /\ state'.connected_at = NoTime]_vars

(***************************************************************************)
(* C3 - connected_at is set only while connection_status = Connected, and  *)
(* a Disconnect clears it.                                                 *)
(***************************************************************************)
C3_ConnectedAtOnlyWhileConnected ==
    /\ state.connected_at # NoTime => state.connection_status = "Connected"
    /\ Executed("Disconnect") => state.connected_at = NoTime

(***************************************************************************)
(* C4 - a Connect that fails at any step emits a ConnectionError and       *)
(* leaves connection_status = Disconnected.                                *)
(***************************************************************************)
C4_FailedConnectLeavesDisconnected ==
    ConnectFailed
    => /\ Count(out, "ev", "ConnectionError") = 1
       /\ state.connection_status = "Disconnected"

(***************************************************************************)
(* C5 - a successful Connect emits exactly Connecting, Connected{jid},     *)
(* AuthenticationSuccess in this order, jid being the bare JID, "/" and    *)
(* the resource; the snapshot is Connected, authenticated, connected_at    *)
(* set, and is published before the inbound task is spawned, which comes   *)
(* last; a SendMessage executed next adds MessageSent as fourth event.     *)
(***************************************************************************)
ConnectEventNames == <<"Connecting", "Connected", "AuthenticationSuccess">>

C5_ConnectEvents ==
    [][/\ ConnectSucceeded'
          => /\ EventNames(out') = ConnectEventNames
             /\ JidString(Events(out')[2].args.jid)
                   = config.jid \o <<"/">> \o config.resource
             /\ state'.connection_status = "Connected"
             /\ state'.authenticated
             /\ state'.connected_at # NoTime
             /\ out'[Len(out')] = Spawn(client')
             /\ \E i \in 1..Len(out') :
                   /\ out'[i] = Pub(state')
                   /\ i < First(out', "ev", "Connected")
             /\ First(out', "ev", "AuthenticationSuccess") < Len(out')
       /\ (ConnectSucceeded /\ Takes("SendMessage") /\ Writes(out') # <<>>)
          => EventNames(out \o out') = ConnectEventNames \o <<"MessageSent">>]_vars

\* C5: the first Connect of the run has succeeded, starting from the default
\* snapshot, and a SendMessage is the next command
C5_Witness ==
    /\ ConnectSucceeded
    /\ nconn = 1
    /\ out[1] = Pub(StateConnecting(DefaultState))
    /\ queue # <<>>
    /\ Head(queue).type = "SendMessage"
    /\ conns[client].open

(***************************************************************************)
(* C6 - a SendMessage whose stanza is written to the transport held emits  *)
(* exactly one MessageSent and makes exactly one save_message call, both   *)
(* with the command's to and body.                                         *)
(***************************************************************************)
C6_SendMessageOnce ==
    (Executed("SendMessage") /\ Writes(out) # <<>>)
    => /\ Len(Events(out)) = 1
       /\ Events(out)[1].name = "MessageSent"
       /\ Events(out)[1].args.to = cur.to
       /\ Events(out)[1].args.body = cur.body
       /\ Len(DbCalls(out)) = 1
       /\ DbCalls(out)[1].name = "save_message"
       /\ DbCalls(out)[1].args.to = cur.to
       /\ DbCalls(out)[1].args.body = cur.body

\* C6: a SendMessage was written to the transport held and the loop goes on
C6_Witness ==
    /\ Executed("SendMessage")
    /\ Writes(out) # <<>>
    /\ pc = "idle"

(***************************************************************************)
(* C7 - a message whose body is empty or absent never yields a             *)
(* MessageReceived, with or without a chat-state hint.                     *)
(***************************************************************************)
EmptyBody(m) == m.bodies = <<>> \/ Head(m.bodies) = ""

C7_EmptyBodyNoMessageReceived ==
    (lastIn.packet.kind = "message" /\ EmptyBody(lastIn.packet))
    => Count(inOut, "ev", "MessageReceived") = 0

\* C7: an empty-bodied message with a hint was dispatched, its chat state reported
C7_Witness ==
    /\ lastIn.packet.kind = "message"
    /\ EmptyBody(lastIn.packet)
    /\ lastIn.packet.hints # {}
    /\ Count(inOut, "ev", "ChatStateReceived") = 1

(***************************************************************************)
(* C8 - a roster result of N items, carrying from or to or both, yields    *)
(* one RosterReceived with those N items in order and N add_roster_item    *)
(* calls, all made before the event.                                       *)
(***************************************************************************)
IsRosterResult(p) ==
    /\ p.kind = "iq"
    /\ p.payload.roster
    /\ (p.from # NoJid \/ p.to # NoJid)

C8_RosterReceived ==
    IsRosterResult(lastIn.packet)
    => LET items == lastIn.packet.payload.items
           n     == Len(items)
       IN  /\ Len(inOut) = n + 1
           /\ \A i \in 1..n :
                 /\ inOut[i].k = "db"
                 /\ inOut[i].name = "add_roster_item"
                 /\ inOut[i].args.jid = items[i].jid
           /\ inOut[n + 1].k = "ev"
           /\ inOut[n + 1].name = "RosterReceived"
           /\ Len(inOut[n + 1].args.items) = n
           /\ \A i \in 1..n : inOut[n + 1].args.items[i].jid = items[i].jid

(***************************************************************************)
(* C9 - presence dispatch: subscribe yields exactly one                    *)
(* SubscriptionRequest, subscribed one SubscriptionApproved, unsubscribed  *)
(* one SubscriptionDeclined, available and unavailable one                 *)
(* PresenceReceived, unsubscribe, error and probe no event; nothing else   *)
(* is emitted.                                                             *)
(***************************************************************************)
PresenceEventNames(type) ==
    CASE type = "Subscribe" -> <<"SubscriptionRequest">>
      [] type = "Subscribed" -> <<"SubscriptionApproved">>
      [] type = "Unsubscribed" -> <<"SubscriptionDeclined">>
      [] type \in {"Available", "Unavailable"} -> <<"PresenceReceived">>
      [] type \in {"Unsubscribe", "Error", "Probe"} -> <<>>

\* C9 for every presence, with or without a sender
C9_PresenceEvents ==
    lastIn.packet.kind = "presence"
    => EventNames(inOut) = PresenceEventNames(lastIn.packet.type)

\* C9 for every presence that has a sender: the mapping above; a presence
\* without a sender has no effect at all
C9_PresenceEventsWithSender ==
    lastIn.packet.kind = "presence"
    => IF lastIn.packet.from # NoJid
       THEN EventNames(inOut) = PresenceEventNames(lastIn.packet.type)
       ELSE inOut = <<>>

\* C9: a subscribe with a sender was dispatched
C9_Witness ==
    /\ lastIn.packet.kind = "presence"
    /\ lastIn.packet.type = "Subscribe"
    /\ lastIn.packet.from # NoJid
    /\ EventNames(inOut) = <<"SubscriptionRequest">>

(***************************************************************************)
(* C10 - a SendFile, connected or not, has exactly one effect, the event   *)
(* FileTransferError "File transfer not yet implemented": no persistence   *)
(* call, nothing written to the transport, the snapshot unchanged.         *)
(***************************************************************************)
C10_SendFile ==
    [][Takes("SendFile")
       => /\ out' = <<Ev("FileTransferError",
                         [error |-> "File transfer not yet implemented"])>>
          /\ state' = state
          /\ client' = client
          /\ conns' = conns
          /\ pc' = "idle"]_vars

\* C10: a SendFile was executed while the client was connected
C10_Witness ==
    /\ Executed("SendFile")
    /\ state.connection_status = "Connected"
    /\ client # 0

(***************************************************************************)
(* C11 - an available presence with a sender yields one PresenceReceived   *)
(* and exactly one update_presence call, both with the stanza's values:    *)
(* show is the stanza's show value, "online" when absent, status is the    *)
(* stanza's status text.                                                   *)
(***************************************************************************)
C11_AvailablePresence ==
    (/\ lastIn.packet.kind = "presence"
     /\ lastIn.packet.type = "Available"
     /\ lastIn.packet.from # NoJid)
    => LET p    == lastIn.packet
           show == IF p.show = NoShow THEN "online" ELSE p.show
       IN  /\ EventNames(inOut) = <<"PresenceReceived">>
           /\ Events(inOut)[1].args = [from |-> p.from, show |-> show,
                                       status |-> p.status, priority |-> p.priority]
           /\ Len(DbCalls(inOut)) = 1
           /\ DbCalls(inOut)[1].name = "update_presence"
           /\ DbCalls(inOut)[1].args = [jid |-> p.from, show |-> show,
                                        status |-> p.status]

(***************************************************************************)
(* C12 - commands are executed by one consumer in submission order, one    *)
(* at a time: a submission joins the end of the channel and has no effect  *)
(* of its own; the loop takes the oldest waiting command, and only once    *)
(* the command before it is finished; every effect belongs to the command  *)
(* taken last; so the transport handle is dropped only by a Disconnect     *)
(* that was the oldest waiting command, every SendMessage submitted before *)
(* it having written its stanza or failed.                                 *)
(***************************************************************************)
C12_FifoCommands ==
    [][/\ queue' # queue
          => \/ /\ Len(queue') = Len(queue) + 1
                /\ SubSeq(queue', 1, Len(queue)) = queue
                /\ cur' = cur /\ out' = out /\ state' = state
                /\ client' = client /\ conns' = conns /\ stored' = stored
             \/ /\ pc = "idle"
                /\ queue # <<>>
                /\ cur' = Head(queue)
                /\ queue' = Tail(queue)
       /\ out' # out
          => \/ queue # <<>> /\ cur' = Head(queue) /\ queue' = Tail(queue)
             \/ pc = "connecting" /\ cur' = cur /\ queue' = queue
       /\ (client # 0 /\ client' = 0)
          => /\ queue # <<>>
             /\ Head(queue).type = "Disconnect"
             /\ cur' = Head(queue)]_vars

\* C12: a SendMessage was written while a Disconnect and a Connect, submitted
\* in this order, wait in the channel
C12_Witness ==
    /\ Executed("SendMessage")
    /\ Writes(out) # <<>>
    /\ Len(queue) = 2
    /\ queue[1].type = "Disconnect"
    /\ queue[2].type = "Connect"

(***************************************************************************)
(* C13 - inbound stanzas are processed one at a time in arrival order: a   *)
(* task takes up a stanza only when no stanza that arrived before it is    *)
(* still being handled, so every event and persistence call of the earlier *)
(* stanza comes before any of the later one.                               *)
(***************************************************************************)
TakesUp(c) ==
    /\ handling[c] = NotHandling
    /\ \/ handling'[c] # NotHandling
       \/ /\ lastIn' # lastIn
          /\ lastIn'.conn = c
          /\ lastIn'.packet.kind \in {"message", "presence", "iq", "other"}

C13_ArrivalOrder ==
    [][\A c \in ConnIds :
          TakesUp(c) => \A d \in ConnIds \ {c} : handling[d] = NotHandling]_vars

(***************************************************************************)
(* C14 - a Disconnect, whatever the state it is taken in, with or without  *)
(* a transport handle, and also when the unavailable presence or the       *)
(* close fails, leaves the snapshot Disconnected and not authenticated,    *)
(* emits exactly one event, Disconnected with its reason, drops the        *)
(* handle and leaves the command loop running.                             *)
(***************************************************************************)
C14_DisconnectAlwaysResets ==
    [][Takes("Disconnect")
       => /\ state'.connection_status = "Disconnected"
          /\ state'.authenticated = FALSE
          /\ Events(out') = <<Ev("Disconnected",
                                 [reason |-> "User requested disconnect"])>>
          /\ client' = 0
          /\ pc' = "idle"]_vars

\* C14: a Disconnect was executed that found a handle, and neither the
\* presence was written nor the transport closed
C14_Witness ==
    /\ Executed("Disconnect")
    /\ Writes(out) = <<>>
    /\ nconn = 1
    /\ conns[1].open
    /\ state.connected_at = 1
    /\ client = 0

(***************************************************************************)
(* C15 - a Connect taken while the snapshot is Connected or Connecting is  *)
(* a no-op: the snapshot stays as it is, no transport is opened, no        *)
(* inbound task is started, no event is emitted: the command is finished   *)
(* in the step that takes it, nothing having changed.                      *)
(***************************************************************************)
C15_ConnectWhileConnectedNoOp ==
    [][(Takes("Connect") /\ state.connection_status \in {"Connected", "Connecting"})
       => /\ state' = state
          /\ Events(out') = <<>>
          /\ pc' = "idle"
          /\ client' = client
          /\ conns' = conns]_vars

(***************************************************************************)
(* C16 - every failure while a command is executed, a failed write to the  *)
(* transport or an invalid configured JID, is reported as an error event   *)
(* on the broadcast channel; none is swallowed.                            *)
(***************************************************************************)
\* the events of XmppEvent that report an error
ErrorEventNames ==
    {"ConnectionError", "AuthenticationError", "FileTransferError", "Error",
     "StanzaError"}

C16_FailuresReported ==
    /\ pc \in {"stopped", "panicked"}
       => \E i \in 1..Len(Events(out)) : Events(out)[i].name \in ErrorEventNames
    /\ ConnectFailed
       => \E i \in 1..Len(Events(out)) : Events(out)[i].name \in ErrorEventNames

(***************************************************************************)
(* C17 - a failing persistence call suppresses no event: a SendMessage     *)
(* whose save_message fails still emits MessageSent and the command loop   *)
(* goes on; a stanza whose save_message, update_presence or                *)
(* add_roster_item fails yields the events it yields when the call         *)
(* succeeds (ChatStateReceived and MessageReceived, the event of the       *)
(* presence type, RosterReceived) and the inbound task goes on.            *)
(***************************************************************************)
FailedCall(effs) == \E i \in 1..Len(effs) : effs[i].k = "db" /\ ~effs[i].ok

C17_PersistenceFailureKeepsEvents ==
    /\ (Executed("SendMessage") /\ FailedCall(out))
       => /\ EventNames(out) = <<"MessageSent">>
          /\ Events(out)[1].args = [to |-> cur.to, body |-> cur.body]
          /\ pc = "idle"
    /\ FailedCall(inOut)
       => LET p == lastIn.packet
          IN  /\ Running(lastIn.conn)
              /\ Events(inOut) = Events(Dispatch(p, "up").effects)
              /\ p.kind = "message"
                 => EventNames(inOut)
                       = (IF p.hints # {} THEN <<"ChatStateReceived">> ELSE <<>>)
                         \o (IF EmptyBody(p) THEN <<>> ELSE <<"MessageReceived">>)
              /\ p.kind = "presence"
                 => EventNames(inOut) = PresenceEventNames(p.type)
              /\ p.kind = "iq" => EventNames(inOut) = <<"RosterReceived">>

\* C17: the save of a sent message failed, and so did the save of a received
\* message, which was reported all the same
C17_Witness ==
    /\ Executed("SendMessage")
    /\ FailedCall(out)
    /\ FailedCall(inOut)
    /\ lastIn.packet.kind = "message"
    /\ Count(inOut, "ev", "MessageReceived") = 1

(***************************************************************************)
(* C18 - no inbound stanza crashes or stops the dispatch loop: none makes  *)
(* the handler panic, and a stanza that is no message, presence or IQ, or  *)
(* an IQ whose payload is absent or no roster, has no effect at all.       *)
(***************************************************************************)
C18_NoStanzaStopsDispatch ==
    /\ \A c \in ConnIds : conns[c].task # "panicked"
    /\ (\/ lastIn.packet.kind = "other"
        \/ /\ lastIn.packet.kind = "iq"
           /\ ~(lastIn.packet.payload.present /\ lastIn.packet.payload.roster))
       => /\ inOut = <<>>
          /\ Running(lastIn.conn)

RosterHolds(jid) ==
    \/ \E row \in stored : row.jid = jid
    \/ \E i \in 1..Len(state.roster) : state.roster[i].jid = jid

C20_RosterItemRemoved ==
    /\ (Executed("RemoveRosterItem") /\ Writes(out) # <<>>) => ~RosterHolds(cur.jid)
    /\ (lastIn.packet.kind = "iq" /\ Count(inOut, "ev", "RosterReceived") = 1)
       => \A i \in 1..Len(lastIn.packet.payload.items) :
             lastIn.packet.payload.items[i].subscription = "remove"
             => ~RosterHolds(lastIn.packet.payload.items[i].jid)

(***************************************************************************)
(* C21 - for a valid bare JID node@domain and a resource r, the JID built  *)
(* with Some(r) has exactly that node, domain and resource, and            *)
(* extract_bare_jid of it is the bare JID again; built with None it has    *)
(* the node and the domain and no resource.                                *)
(***************************************************************************)
HasNo(s, c) == \A i \in 1..Len(s) : s[i] # c

\* text of the form node@domain, both parts non-empty and free of "@" and "/"
ValidBare(s) ==
    /\ HasNo(s, "/")
    /\ Cardinality({i \in 1..Len(s) : s[i] = "@"}) = 1
    /\ IndexOf(s, "@") \notin {1, Len(s)}

C21_JidRoundTrip ==
    (cur.type = "BuildJid" /\ ValidBare(config.jid)
     /\ (cur.hasRes => config.resource # <<>>))
    => LET s == config.jid
           i == IndexOf(s, "@")
       IN  /\ out[1].ok
           /\ out[1].jid.node = SubSeq(s, 1, i - 1)
           /\ out[1].jid.domain = SubSeq(s, i + 1, Len(s))
           /\ out[1].jid.resource = IF cur.hasRes THEN config.resource ELSE <<>>
           /\ out[1].bare = s

\* C21: a JID was built from a valid bare JID and a resource holding a "/"
C21_Witness ==
    /\ cur.type = "BuildJid"
    /\ cur.hasRes
    /\ ValidBare(config.jid)
    /\ ~HasNo(config.resource, "/")
    /\ out[1].ok
    /\ out[1].bare = config.jid

(***************************************************************************)
(* C22 - an inbound message yields at most one ChatStateReceived: with     *)
(* several hints the one for the first present in the order composing,     *)
(* active, paused, inactive, gone; with no hint none; and it is sent       *)
(* before the MessageReceived of the same stanza.                          *)
(***************************************************************************)
HintOrder == <<"composing", "active", "paused", "inactive", "gone">>

StateOrder == <<"Composing", "Active", "Paused", "Inactive", "Gone">>

C22_OneChatState ==
    lastIn.packet.kind = "message"
    => LET hints == lastIn.packet.hints
           n     == Count(inOut, "ev", "ChatStateReceived")
           i     == First(inOut, "ev", "ChatStateReceived")
           j     == First(inOut, "ev", "MessageReceived")
       IN  /\ n <= 1
           /\ hints = {} => n = 0
           /\ (hints # {} /\ lastIn.packet.from # NoJid) => n = 1
           /\ n = 1 =>
                 \E k \in 1..Len(HintOrder) :
                    /\ HintOrder[k] \in hints
                    /\ \A l \in 1..(k - 1) : HintOrder[l] \notin hints
                    /\ inOut[i].args.state = StateOrder[k]
           /\ (n = 1 /\ j # 0) => i < j

\* C22: a message with a body and both composing and active was dispatched
C22_Witness ==
    /\ lastIn.packet.kind = "message"
    /\ {"composing", "active"} \subseteq lastIn.packet.hints
    /\ Count(inOut, "ev", "ChatStateReceived") = 1
    /\ Count(inOut, "ev", "MessageReceived") = 1

(***************************************************************************)
(* C23 - with no transport handle held, SendMessage, SendPresence,         *)
(* GetRoster, AddRosterItem, RemoveRosterItem, ApproveSubscription,        *)
(* DeclineSubscription, JoinMuc, LeaveMuc and SendMucMessage complete      *)
(* without error and do nothing: no event, no persistence call, the        *)
(* snapshot unchanged, the command loop still running.                     *)
(***************************************************************************)
StanzaCommandTypes ==
    {"SendMessage", "SendPresence", "GetRoster", "AddRosterItem",
     "RemoveRosterItem", "ApproveSubscription", "DeclineSubscription",
     "JoinMuc", "LeaveMuc", "SendMucMessage"}

C23_NoHandleNoOp ==
    [][(client = 0 /\ \E type \in StanzaCommandTypes : Takes(type))
       => /\ pc' = "idle"
          /\ out' = <<>>
          /\ state' = state
          /\ stored' = stored]_vars

(***************************************************************************)
(* C24 - an inbound task that ends because its stream closed only sets the *)
(* connected flag false: the snapshot is unchanged, no event is sent, the  *)
(* handle is kept and nothing reconnects, whatever auto_reconnect is.      *)
(***************************************************************************)
C24_StreamEndOnlyClearsFlag ==
    [][\A c \in ConnIds :
          (Running(c) /\ conns'[c].task = "ended")
          => /\ is_connected' = FALSE
             /\ state' = state
             /\ client' = client
             /\ Events(inOut') = <<>>
             /\ out' = out
             /\ <<nconn', queue', pc', cur'>> = <<nconn, queue, pc, cur>>]_vars

\* C24: with auto_reconnect set, the task of the held handle has ended and
\* the snapshot still says Connected and authenticated
C24_Witness ==
    /\ config.auto_reconnect
    /\ lastIn.packet.kind = "end"
    /\ lastIn.conn = client
    /\ state.connection_status = "Connected"
    /\ state.authenticated
    /\ ~is_connected

(***************************************************************************)
(* C25 - with a handle held, SendPresence, ApproveSubscription,            *)
(* DeclineSubscription, JoinMuc, LeaveMuc and SendMucMessage each emit     *)
(* exactly one event, of their own kind (MucMessageReceived with the       *)
(* client's own full JID as sender), after the write to the transport      *)
(* succeeded and none when it failed; GetRoster and RemoveRosterItem emit  *)
(* no event and make no persistence call.                                  *)
(***************************************************************************)
EventOf ==
    [SendPresence |-> "PresenceSent", ApproveSubscription |-> "SubscriptionApproved",
     DeclineSubscription |-> "SubscriptionDeclined", JoinMuc |-> "MucJoined",
     LeaveMuc |-> "MucLeft", SendMucMessage |-> "MucMessageReceived"]

\* the write of the last command failed: run returned the error
WriteFailed == pc = "stopped"

C25_OneEventAfterWrite ==
    /\ \A type \in DOMAIN EventOf :
          (Executed(type) /\ client # 0)
          => IF WriteFailed
             THEN Events(out) = <<>>
             ELSE /\ EventNames(out) = <<EventOf[type]>>
                  /\ Len(Writes(out)) = 1
                  /\ First(out, "wire", Writes(out)[1].name)
                       < First(out, "ev", EventOf[type])
                  /\ type = "SendMucMessage"
                       => /\ Events(out)[1].args.from.resource = config.resource
                          /\ JidString(Events(out)[1].args.from)
                               = config.jid \o <<"/">> \o config.resource
    /\ (Executed("GetRoster") \/ Executed("RemoveRosterItem"))
       => Events(out) = <<>> /\ DbCalls(out) = <<>>

(***************************************************************************)
(* C26 - a failed write to the transport in any command but Connect and    *)
(* Disconnect makes run return and stop: the commands queued and those     *)
(* sent later are never executed and the snapshot keeps its value; a       *)
(* failed Connect leaves the loop running.                                 *)
(***************************************************************************)
\* this step takes a stanza command whose write to the held handle fails:
\* the stanza was built, and nothing was written
FailedWrite ==
    /\ \E type \in StanzaCommandTypes : Takes(type)
    /\ client # 0
    /\ pc' # "panicked"
    /\ Writes(out') = <<>>

C26_WriteFailureStopsLoop ==
    /\ [][FailedWrite
          => /\ pc' = "stopped"
             /\ state' = state
             /\ client' = client
             /\ out' = <<>>]_vars
    /\ [][pc = "stopped"
          => /\ pc' = "stopped"
             /\ <<queue', cur', out', state'>> = <<queue, cur, out, state>>]_vars
    /\ [][(pc = "connecting" /\ pc' # "connecting" /\ Writes(out') = <<>>)
          => pc' = "idle"]_vars

\* C26: a stanza command failed on the held handle while another command
\* was queued, and the snapshot still says Connected
C26_Witness ==
    /\ pc = "stopped"
    /\ cur.type \in StanzaCommandTypes
    /\ client # 0
    /\ queue # <<>>
    /\ state.connection_status = "Connected"

(***************************************************************************)
(* C27 - at most one inbound dispatch task runs at any moment, after any   *)
(* sequence of Connect and Disconnect commands.                            *)
(***************************************************************************)
C27_OneInboundTask == Cardinality({c \in ConnIds : Running(c)}) <= 1

(***************************************************************************)
(* C28 - while the snapshot says Connected and the inbound task of the     *)
(* current connection is running, the connected flag is true: the end of   *)
(* an earlier connection's task does not clear it.                         *)
(***************************************************************************)
C28_FlagOfCurrentConnection ==
    (state.connection_status = "Connected" /\ client # 0 /\ Running(client))
    => is_connected

(***************************************************************************)
(* C29 - between commands the loop holds a transport handle exactly when   *)
(* the published connection_status is Connected, after any sequence of     *)
(* Connect commands, succeeding or failing, and Disconnect commands.       *)
(***************************************************************************)
C29_HandleIffConnected ==
    pc = "idle" => (client # 0 <=> state.connection_status = "Connected")

(***************************************************************************)
(* C30 - the snapshot is published before the event that announces it      *)
(* (Connecting, Connected, Disconnected), and no event derived from a      *)
(* connection's inbound stream is broadcast before that connection's       *)
(* Connected and AuthenticationSuccess.                                    *)
(***************************************************************************)
\* the status an event announces
Announced ==
    [Connecting |-> "Connecting", Connected |-> "Connected",
     Disconnected |-> "Disconnected"]

C30_SnapshotBeforeEvent ==
    /\ [](\A j \in 1..Len(out) :
            (out[j].k = "ev" /\ out[j].name \in DOMAIN Announced)
            => \E i \in 1..(j - 1) :
                  /\ out[i].k = "state"
                  /\ out[i].args.connection_status = Announced[out[j].name]
                  /\ \A l \in (i + 1)..(j - 1) : out[l].k # "state")
    /\ [][\A c \in ConnIds :
            (conns[c].task = "none" /\ conns'[c].task # "none")
            => \E i \in 1..Len(out') :
                  /\ out'[i] = Spawn(c)
                  /\ 0 < First(out', "ev", "Connected")
                  /\ First(out', "ev", "Connected")
                       < First(out', "ev", "AuthenticationSuccess")
                  /\ First(out', "ev", "AuthenticationSuccess") < i]_vars
    /\ [][lastIn' # lastIn => Running(lastIn'.conn)]_vars

\* C30: the second connection is announced and an event of its inbound
\* stream has been broadcast since
C30_Witness ==
    /\ ConnectSucceeded
    /\ client = 2
    /\ lastIn.conn = client
    /\ Events(inOut) # <<>>
    /\ First(out, "state", "update_state") < First(out, "ev", "Connected")

====
